---------------------------- MODULE Spec2Model ----------------------------
(***************************************************************************)
(* Model of contractpdf.py: the /generate endpoint of the contract         *)
(* generator.  A request is validated by the framework against             *)
(* ContractRequest, then generate_contract runs clause selection, the      *)
(* refinement call, template assembly, PDF rendering and the upload, and   *)
(* turns every exception of that body into an HTTP 400.                    *)
(*                                                                         *)
(* Text is a sequence of tokens.  A token is one character, except that a  *)
(* literal of the source (a template fragment, a clause of the clause      *)
(* bank, a fixed message) is kept as one token.  The characters the code   *)
(* treats specially and that are not ASCII are named: RSQUO, LDQUO, RDQUO  *)
(* (typographic quotes) and RUPEE.                                         *)
(***************************************************************************)
EXTENDS Integers, Sequences, TLC

VARIABLES
    pc,             \* per request: position in the handler
    request,        \* per request: the body received
    data,           \* per request: the ContractRequest (after defaults)
    raw_clause,     \* per request: local raw_clause
    completion,     \* per request: what the text-completion service answered
    refined_clause, \* per request: local refined_clause
    contract_text,  \* per request: local contract_text
    filename,       \* per request: local filename (0: not yet set)
    upload_res,     \* per request: local upload_res
    response,       \* per request: the HTTP response sent
    stages,         \* per request: the stages completed, in order
    files,          \* the working directory: file name -> rendered document
    issued,         \* the identifiers uuid4 has handed out
    llm_calls,      \* per request: its calls to the text-completion service
    uploads         \* per request: its calls to the upload service

vars == <<pc, request, data, raw_clause, completion, refined_clause, contract_text,
          filename, upload_res, response, stages, files, issued, llm_calls,
          uploads>>

----------------------------------------------------------------------------
(* Bounds *)

\* number of request slots (in-flight requests)
NumReq == 2
\* longest run of digit-position characters in a generated duration
MaxDigits == 2
\* longest run of whitespace in a generated duration
MaxWs == 2

Reqs == 1..NumReq
\* the identifiers uuid4 draws from: one for each request in flight
Names == 1..NumReq

----------------------------------------------------------------------------
(* Text helpers *)

RECURSIVE Flatten(_)
\* concatenation of a sequence of texts (what an f-string does with its parts)
Flatten(parts) ==
    IF parts = <<>> THEN <<>> ELSE Head(parts) \o Flatten(Tail(parts))

\* text x occurs in text t as a contiguous run
Contains(t, x) ==
    \E i \in 1..(Len(t) - Len(x) + 1) : SubSeq(t, i, i + Len(x) - 1) = x

StartsWith(t, x) == Len(x) <= Len(t) /\ SubSeq(t, 1, Len(x)) = x

\* an optional value: None, or Some text
None == [some |-> FALSE, val |-> <<>>]
Some(v) == [some |-> TRUE, val |-> v]

\* str() of an optional field inside an f-string: None prints as "None"
Str(o) == IF o.some THEN o.val ELSE <<"N", "o", "n", "e">>

Digits == {"0", "2", "5"}
Whitespace == {" ", "\n"}

RECURSIVE SeqsUpTo(_, _)
\* all sequences over S of length at most n
SeqsUpTo(S, n) ==
    IF n = 0 THEN {<<>>}
    ELSE LET shorter == SeqsUpTo(S, n - 1)
         IN  shorter \cup {Append(s, c) : s \in shorter, c \in S}

----------------------------------------------------------------------------
(* ContractRequest and its validators *)

ContractTypes ==
    {"nda", "contractor", "sla", "partnership", "sales", "employment",
     "lease", "mou", "noncompete"}

DefaultJurisdiction == <<"N", "e", "w", " ", "D", "e", "l", "h", "i">>

\* validate_party_names: `if not v or len(v) < 2: raise`
validate_party_names(v) == ~(v = <<>> \/ Len(v) < 2)

Units ==
    {<<"y", "e", "a", "r">>, <<"y", "e", "a", "r", "s">>,
     <<"m", "o", "n", "t", "h">>, <<"m", "o", "n", "t", "h", "s">>,
     <<"d", "a", "y">>, <<"d", "a", "y", "s">>}

\* `$` without re.MULTILINE: the end of the string, or just before a
\* newline that is the last character of the string
AtDollar(rest) == rest = <<>> \/ rest = <<"\n">>

\* re.match(r'^\d+\s+(year|years|month|months|day|days)$', v): some split of
\* v into digits, whitespace, a unit and a position where `$` matches
validate_duration(v) ==
    \E i \in 1..Len(v), j \in 1..Len(v), k \in 1..Len(v) :
        /\ i < j /\ j <= k
        /\ \A n \in 1..i : v[n] \in Digits
        /\ \A n \in (i + 1)..j : v[n] \in Whitespace
        /\ SubSeq(v, j + 1, k) \in Units
        /\ AtDollar(SubSeq(v, k + 1, Len(v)))

\* the Literal[...] annotation of contract_type
validate_contract_type(t) == t \in ContractTypes

\* mutant: the party-name validator is not applied
Valid_no_party_check(raw) ==
    /\ validate_contract_type(raw.contract_type)
    /\ validate_duration(raw.duration)

\* pydantic's verdict on a raw request body
Valid(raw) ==
    /\ validate_contract_type(raw.contract_type)
    /\ validate_party_names(raw.party_a)
    /\ validate_party_names(raw.party_b)
    /\ validate_duration(raw.duration)

\* the model instance: the raw fields, with the default of jurisdiction
ContractRequest(raw) ==
    [raw EXCEPT !.jurisdiction =
        IF raw.jurisdiction.some THEN raw.jurisdiction.val
        ELSE DefaultJurisdiction]

----------------------------------------------------------------------------
(* Clause retrieval *)

\* specialized_clause_banks
specialized_clause_banks ==
    [nda |->
        << <<"All confidential information shall remain the exclusive property of the disclosing party and shall not be used for any purpose other than the intended business collaboration.">>,
           <<"Breach of confidentiality shall result in liquidated damages of INR 10,00,000 and potential legal action under Information Technology Act, 2000.">>,
           <<"Confidentiality obligations persist for five years post-termination of agreement.">> >>,
     employment |->
        << <<"The employee agrees to abide by the company's code of conduct and intellectual property guidelines as per Indian labor laws.">>,
           <<"Termination may occur with notice as specified in Industrial Disputes Act, 1947.">>,
           <<"Dispute resolution through mandatory arbitration under Arbitration and Conciliation Act, 1996.">> >>,
     noncompete |->
        << <<"The restricted period shall not exceed two years and shall be limited to the metropolitan areas where the employer conducts primary business.">>,
           <<"Compensation shall be provided to the employee during the non-compete period as per legal standards.">>,
           <<"The non-compete clause is subject to judicial review of reasonableness.">> >>]

\* default_clauses
default_clauses ==
    << <<"This Agreement shall be governed by the laws of India and subject to the jurisdiction of courts in New Delhi.">>,
       <<"All disputes shall be resolved through arbitration under the Arbitration and Conciliation Act, 1996.">>,
       <<"Each party shall bear its own legal costs unless otherwise specified by law.">> >>

\* specialized_clause_banks.get(contract_type, default_clauses)
clauses_for(contract_type) ==
    IF contract_type \in DOMAIN specialized_clause_banks
    THEN specialized_clause_banks[contract_type]
    ELSE default_clauses

\* mutant: the query picks the entry
retrieve_clause_by_query(query, contract_type) ==
    IF query = <<"termination">>
    THEN clauses_for(contract_type)[2]
    ELSE clauses_for(contract_type)[1]

\* retrieve_clause(query, contract_type): `return clauses[0]`
retrieve_clause(query, contract_type) == clauses_for(contract_type)[1]

----------------------------------------------------------------------------
(* Clause refinement *)

\* LEGAL_PROMPTS[contract_type]['context']
LEGAL_PROMPTS_context ==
    [nda |-> "Indian Contract Act 1872 + IT Act 2000 amendments",
     contractor |-> "Indian Contract Act + Service Tax/GST provisions",
     sla |-> "Consumer Protection Act 2019 + IT Act",
     partnership |-> "Indian Partnership Act 1932 + GST provisions",
     sales |-> "Sale of Goods Act 1930 + GST laws",
     employment |-> "New Labor Codes 2023 + Industrial Disputes Act",
     lease |-> "Transfer of Property Act 1882 + RERA",
     mou |-> "Indian Contract Act + Specific Relief Act",
     noncompete |-> "Indian Contract Act Section 27 + recent judgments"]

\* the prompt of the refinement call: the parts that vary with the request
\* (the requirement and example lists are fixed per contract type, like the
\* context, and the five rules are fixed)
Prompt(clause, contract_type) ==
    [contract_type |-> contract_type,
     clause |-> clause,
     context |-> LEGAL_PROMPTS_context[contract_type]]

RECURSIVE LStrip(_)
LStrip(t) ==
    IF t # <<>> /\ Head(t) \in Whitespace THEN LStrip(Tail(t)) ELSE t

RECURSIVE RStrip(_)
RStrip(t) ==
    IF t # <<>> /\ t[Len(t)] \in Whitespace
    THEN RStrip(SubSeq(t, 1, Len(t) - 1)) ELSE t

\* str.strip(): leading and trailing whitespace removed
Strip(t) == RStrip(LStrip(t))

----------------------------------------------------------------------------
(* Template generator *)

\* legal_templates["nda"] (line 236)
Template_nda(d, clause) ==
    Flatten(<<
        <<"NON-DISCLOSURE AGREEMENT", "\n", "\n", "This Non-Disclosure Agreement is made between ">>,
        d.party_a,
        <<" and ">>,
        d.party_b,
        <<".", "\n", "\n", "1. Term: ">>,
        d.duration,
        <<"\n", "2. Confidentiality: All information exchanged shall be kept confidential.", "\n", "3. Legal Clause: ">>,
        clause,
        <<"\n", "4. Jurisdiction: Governed by the laws of India, jurisdiction in ">>,
        d.jurisdiction,
        <<".", "\n", "\n", "Signed: ">>,
        d.party_a,
        <<", ">>,
        d.party_b
    >>)

\* legal_templates["contractor"] (line 238)
Template_contractor(d, clause) ==
    Flatten(<<
        <<"INDEPENDENT CONTRACTOR AGREEMENT", "\n", "\n", "This agreement is made between ">>,
        d.party_a,
        <<" and ">>,
        d.party_b,
        <<".", "\n", "\n", "1. Duration: ">>,
        d.duration,
        <<"\n", "2. Role: Independent Contractor", "\n", "3. Legal Clause: ">>,
        clause,
        <<"\n", "4. Jurisdiction: ">>,
        d.jurisdiction,
        <<"\n", "\n", "Signed: ">>,
        d.party_a,
        <<", ">>,
        d.party_b
    >>)

\* legal_templates["sla"] (line 240)
Template_sla(d, clause) ==
    Flatten(<<
        <<"SERVICE LEVEL AGREEMENT", "\n", "\n", "This agreement is between ">>,
        d.party_a,
        <<" and ">>,
        d.party_b,
        <<".", "\n", "\n", "1. Term: ">>,
        d.duration,
        <<"\n", "2. Services: As per annexure", "\n", "3. Legal Clause: ">>,
        clause,
        <<"\n", "4. Jurisdiction: ">>,
        d.jurisdiction,
        <<"\n", "\n", "Signed: ">>,
        d.party_a,
        <<", ">>,
        d.party_b
    >>)

\* legal_templates["partnership"] (line 242)
Template_partnership(d, clause) ==
    Flatten(<<
        <<"PARTNERSHIP AGREEMENT", "\n", "\n", "This partnership is entered between ">>,
        d.party_a,
        <<" and ">>,
        d.party_b,
        <<".", "\n", "\n", "1. Term: ">>,
        d.duration,
        <<"\n", "2. Terms: Equal stake and responsibility", "\n", "3. Legal Clause: ">>,
        clause,
        <<"\n", "4. Jurisdiction: ">>,
        d.jurisdiction,
        <<"\n", "\n", "Signed: ">>,
        d.party_a,
        <<", ">>,
        d.party_b
    >>)

\* legal_templates["sales"] (line 244)
Template_sales(d, clause) ==
    Flatten(<<
        <<"SALES AGREEMENT", "\n", "\n", "This agreement is made between ">>,
        d.party_a,
        <<" (Seller) and ">>,
        d.party_b,
        <<" (Buyer).", "\n", "\n", "1. Duration: ">>,
        d.duration,
        <<"\n", "2. Goods/Services: ">>,
        Str(d.goods_description),
        <<"\n", "3. Legal Clause: ">>,
        clause,
        <<"\n", "4. Jurisdiction: ">>,
        d.jurisdiction,
        <<"\n", "\n", "Signed: ">>,
        d.party_a,
        <<", ">>,
        d.party_b
    >>)

\* legal_templates["employment"] (line 246)
Template_employment(d, clause) ==
    Flatten(<<
        <<"EMPLOYMENT AGREEMENT", "\n", "\n", "This employment agreement is made between ">>,
        d.party_a,
        <<" and ">>,
        d.party_b,
        <<".", "\n", "\n", "1. Position: ">>,
        Str(d.position),
        <<"\n", "2. Duration: ">>,
        d.duration,
        <<"\n", "3. Legal Clause: ">>,
        clause,
        <<"\n", "4. Jurisdiction: ">>,
        d.jurisdiction,
        <<"\n", "\n", "Signed: ">>,
        d.party_a,
        <<", ">>,
        d.party_b
    >>)

\* mutant: the lease template without its jurisdiction slot
Template_lease_no_jurisdiction(d, clause) ==
    Flatten(<<
        <<"LEASE AGREEMENT", "\n", "\n", "This agreement is made between ">>,
        d.party_a,
        <<" (Lessor) and ">>,
        d.party_b,
        <<" (Lessee).", "\n", "\n", "1. Property: ">>,
        Str(d.property_address),
        <<"\n", "2. Duration: ">>,
        d.duration,
        <<"\n", "3. Legal Clause: ">>,
        clause,
        <<"\n", "4. Jurisdiction: ", "\n", "\n", "Signed: ">>,
        d.party_a,
        <<", ">>,
        d.party_b
    >>)

\* mutant: no entry under the key "lease", so the lookup falls through to
\* its default
Template_lease_missing(d, clause) == <<"Invalid contract type.">>

\* legal_templates["lease"] (line 248)
Template_lease(d, clause) ==
    Flatten(<<
        <<"LEASE AGREEMENT", "\n", "\n", "This agreement is made between ">>,
        d.party_a,
        <<" (Lessor) and ">>,
        d.party_b,
        <<" (Lessee).", "\n", "\n", "1. Property: ">>,
        Str(d.property_address),
        <<"\n", "2. Duration: ">>,
        d.duration,
        <<"\n", "3. Legal Clause: ">>,
        clause,
        <<"\n", "4. Jurisdiction: ">>,
        d.jurisdiction,
        <<"\n", "\n", "Signed: ">>,
        d.party_a,
        <<", ">>,
        d.party_b
    >>)

\* legal_templates["mou"] (line 250)
Template_mou(d, clause) ==
    Flatten(<<
        <<"MEMORANDUM OF UNDERSTANDING", "\n", "\n", "This MoU is entered into by ">>,
        d.party_a,
        <<" and ">>,
        d.party_b,
        <<".", "\n", "\n", "1. Term: ">>,
        d.duration,
        <<"\n", "2. Understanding: As per mutual discussion", "\n", "3. Legal Clause: ">>,
        clause,
        <<"\n", "4. Jurisdiction: ">>,
        d.jurisdiction,
        <<"\n", "\n", "Signed: ">>,
        d.party_a,
        <<", ">>,
        d.party_b
    >>)

\* legal_templates["noncompete"] (line 252)
Template_noncompete(d, clause) ==
    Flatten(<<
        <<"NON-COMPETE AGREEMENT", "\n", "\n", "This agreement is between ">>,
        d.party_a,
        <<" and ">>,
        d.party_b,
        <<".", "\n", "\n", "1. Duration: ">>,
        d.duration,
        <<"\n", "2. Scope: ">>,
        Str(d.scope),
        <<"\n", "3. Legal Clause: ">>,
        clause,
        <<"\n", "4. Jurisdiction: ">>,
        d.jurisdiction,
        <<"\n", "\n", "Signed: ">>,
        d.party_a,
        <<", ">>,
        d.party_b
    >>)

\* get_legal_template: legal_templates.get(T, "Invalid contract type.")
get_legal_template(d, clause) ==
    CASE d.contract_type = "nda" -> Template_nda(d, clause)
      [] d.contract_type = "contractor" -> Template_contractor(d, clause)
      [] d.contract_type = "sla" -> Template_sla(d, clause)
      [] d.contract_type = "partnership" -> Template_partnership(d, clause)
      [] d.contract_type = "sales" -> Template_sales(d, clause)
      [] d.contract_type = "employment" -> Template_employment(d, clause)
      [] d.contract_type = "lease" -> Template_lease(d, clause)
      [] d.contract_type = "mou" -> Template_mou(d, clause)
      [] d.contract_type = "noncompete" -> Template_noncompete(d, clause)
      [] OTHER -> <<"Invalid contract type.">>

----------------------------------------------------------------------------
(* PDF export *)

RECURSIVE Normalize(_)
\* the four str.replace calls at the head of save_as_pdf
Normalize(t) ==
    IF t = <<>> THEN <<>>
    ELSE LET c == Head(t)
             out == CASE c = "RSQUO" -> <<"'">>
                      [] c = "LDQUO" -> <<"\"">>
                      [] c = "RDQUO" -> <<"\"">>
                      [] c = "RUPEE" -> <<"R", "s", ".">>
                      [] OTHER -> <<c>>
         IN  out \o Normalize(Tail(t))

RECURSIVE Split(_)
\* content.split("\n"): the lines of the text, a line being a text
Split(t) ==
    IF \A i \in 1..Len(t) : t[i] # "\n" THEN <<t>>
    ELSE LET i == CHOOSE k \in 1..Len(t) :
                      t[k] = "\n" /\ \A m \in 1..(k - 1) : t[m] # "\n"
         IN  <<SubSeq(t, 1, i - 1)>> \o Split(SubSeq(t, i + 1, Len(t)))

\* the document save_as_pdf lays out: the title cell, then one multi_cell
\* per line of the normalized content
save_as_pdf(content) ==
    [title |-> "LEGAL CONTRACT DOCUMENT", lines |-> Split(Normalize(content))]

----------------------------------------------------------------------------
(* The request handler *)

\* what a slot holds before a request arrives
NoRequest ==
    [contract_type |-> "", party_a |-> <<>>, party_b |-> <<>>,
     duration |-> <<>>, clause_query |-> <<>>, property_address |-> None,
     position |-> None, goods_description |-> None, scope |-> None,
     jurisdiction |-> None]

NoCompletion == [kind |-> "pending", text |-> <<>>]
NoReply == [status_code |-> 0, json |-> FALSE, status |-> "absent",
            data |-> "absent", downloadPage |-> ""]

Init ==
    /\ pc = [r \in Reqs |-> "idle"]
    /\ request = [r \in Reqs |-> NoRequest]
    /\ data = [r \in Reqs |-> NoRequest]
    /\ raw_clause = [r \in Reqs |-> <<>>]
    /\ completion = [r \in Reqs |-> NoCompletion]
    /\ refined_clause = [r \in Reqs |-> <<>>]
    /\ contract_text = [r \in Reqs |-> <<>>]
    /\ filename = [r \in Reqs |-> 0]
    /\ upload_res = [r \in Reqs |-> NoReply]
    /\ response = [r \in Reqs |-> <<>>]
    /\ stages = [r \in Reqs |-> <<>>]
    /\ files = <<>>
    /\ issued = {}
    /\ llm_calls = [r \in Reqs |-> <<>>]
    /\ uploads = [r \in Reqs |-> <<>>]

\* the errors pydantic collects, in field order
ValidationErrors(raw) ==
    (IF validate_contract_type(raw.contract_type) THEN <<>>
     ELSE <<"contract_type: unexpected value">>)
    \o (IF validate_party_names(raw.party_a) THEN <<>>
        ELSE <<"party_a: Party names must be valid and at least 2 characters long">>)
    \o (IF validate_party_names(raw.party_b) THEN <<>>
        ELSE <<"party_b: Party names must be valid and at least 2 characters long">>)
    \o (IF validate_duration(raw.duration) THEN <<>>
        ELSE <<"duration: Duration must be in format '# year/years/month/months/day/days'">>)

\* the status of the framework's answer to a body that fails validation
ValidationStatus == 422

\* the framework's answer to a body that does not validate: the handler is
\* not entered
validation_response(raw) ==
    [status |-> ValidationStatus, body |-> [detail |-> ValidationErrors(raw)]]

\* mutant: the detail is the bare cause
failure_response_no_prefix(cause) ==
    [status |-> 400, body |-> [detail |-> cause]]

\* `except Exception as e: raise HTTPException(status_code=400, detail=...)`
failure_response(cause) ==
    [status |-> 400,
     body |-> [detail |-> <<"Contract generation failed: ">> \o cause]]

\* the `return {...}` of generate_contract
success_response(text, file_url) ==
    [status |-> 200,
     body |-> [message |-> "Contract generated and uploaded.",
               contract |-> text,
               pdf_url |-> file_url]]

\* mutant: a failure sends the request back to the refinement call
Fail_retry(r, cause) ==
    /\ pc' = [pc EXCEPT ![r] = "refine"]
    /\ UNCHANGED response

\* the except clause, taken from position pc[r]
Fail(r, cause) ==
    /\ response' = [response EXCEPT ![r] = Append(@, failure_response(cause))]
    /\ pc' = [pc EXCEPT ![r] = "done"]

\* a request arrives with body raw; the framework builds ContractRequest and
\* calls generate_contract, or answers the validation error itself
Receive(r, raw) ==
    /\ pc[r] = "idle"
    /\ request' = [request EXCEPT ![r] = raw]
    /\ IF Valid(raw)
       THEN /\ data' = [data EXCEPT ![r] = ContractRequest(raw)]
            /\ pc' = [pc EXCEPT ![r] = "select"]
            /\ UNCHANGED response
       ELSE /\ response' = [response EXCEPT ![r] = Append(@, validation_response(raw))]
            /\ pc' = [pc EXCEPT ![r] = "done"]
            /\ UNCHANGED data
    /\ UNCHANGED <<raw_clause, completion, refined_clause, contract_text,
                   filename, upload_res, stages, files, issued, llm_calls,
                   uploads>>

\* raw_clause = retrieve_clause(data.clause_query, data.contract_type)
SelectClause(r) ==
    /\ pc[r] = "select"
    /\ raw_clause' = [raw_clause EXCEPT ![r] =
            retrieve_clause(data[r].clause_query, data[r].contract_type)]
    /\ stages' = [stages EXCEPT ![r] = Append(@, "select")]
    /\ pc' = [pc EXCEPT ![r] = "refine"]
    /\ UNCHANGED <<request, data, completion, refined_clause, contract_text,
                   filename, upload_res, response, files, issued, llm_calls,
                   uploads>>

\* refined_clause = refine_clause_with_legal_expertise(raw_clause, type):
\* one call of client.chat.completions.create, answered by c
Refine(r, c) ==
    /\ pc[r] = "refine"
    /\ llm_calls' = [llm_calls EXCEPT ![r] =
            Append(@, Prompt(raw_clause[r], data[r].contract_type))]
    /\ completion' = [completion EXCEPT ![r] = c]
    /\ CASE c.kind = "text" ->
              /\ refined_clause' = [refined_clause EXCEPT ![r] = Strip(c.text)]
              /\ stages' = [stages EXCEPT ![r] = Append(@, "refine")]
              /\ pc' = [pc EXCEPT ![r] = "assemble"]
              /\ UNCHANGED response
         [] c.kind = "null" ->
              \* message.content is None: .strip() raises AttributeError
              /\ Fail(r, <<"'NoneType' object has no attribute 'strip'">>)
              /\ UNCHANGED <<refined_clause, stages>>
         [] OTHER ->
              \* the call raised (network, quota, ...)
              /\ Fail(r, c.text)
              /\ UNCHANGED <<refined_clause, stages>>
    /\ UNCHANGED <<request, data, raw_clause, contract_text, filename,
                   upload_res, files, issued, uploads>>

\* contract_text = get_legal_template(data, refined_clause)
Assemble(r) ==
    /\ pc[r] = "assemble"
    /\ contract_text' = [contract_text EXCEPT ![r] =
            get_legal_template(data[r], refined_clause[r])]
    /\ stages' = [stages EXCEPT ![r] = Append(@, "assemble")]
    /\ pc' = [pc EXCEPT ![r] = "render"]
    /\ UNCHANGED <<request, data, raw_clause, completion, refined_clause,
                   filename, upload_res, response, files, issued, llm_calls,
                   uploads>>

\* mutant: the default file name of save_as_pdf for every request
uuid4_fixed == {1}

\* uuid.uuid4().hex: an identifier not handed out before (uuid4 draws 122
\* random bits; the model takes its collision resistance as given)
uuid4 == Names \ issued

\* the file save_as_pdf(content, name) leaves in the working directory
write_file(name, content) ==
    [n \in (DOMAIN files) \cup {name} |->
        IF n = name THEN save_as_pdf(content) ELSE files[n]]

\* filename = f"{uuid.uuid4().hex}.pdf"; save_as_pdf(contract_text, filename)
\* ok: whether the renderer and the write succeed
Render(r, ok) ==
    /\ pc[r] = "render"
    /\ \E n \in uuid4 :
        /\ filename' = [filename EXCEPT ![r] = n]
        /\ issued' = issued \cup {n}
        /\ IF ok
           THEN /\ files' = write_file(n, contract_text[r])
                /\ stages' = [stages EXCEPT ![r] = Append(@, "render")]
                /\ pc' = [pc EXCEPT ![r] = "open"]
                /\ UNCHANGED response
           ELSE /\ Fail(r, <<"render error">>)
                /\ UNCHANGED <<files, stages>>
    /\ UNCHANGED <<request, data, raw_clause, completion, refined_clause,
                   contract_text, upload_res, llm_calls, uploads>>

\* with open(filename, "rb") as f: ok is whether the open succeeds when the
\* file is there
Open(r, ok) ==
    /\ pc[r] = "open"
    /\ IF filename[r] \in DOMAIN files /\ ok
       THEN /\ pc' = [pc EXCEPT ![r] = "post"]
            /\ UNCHANGED response
       ELSE Fail(r, <<"[Errno] cannot open file">>)
    /\ UNCHANGED <<request, data, raw_clause, completion, refined_clause,
                   contract_text, filename, upload_res, stages, files, issued,
                   llm_calls, uploads>>

\* mutant: a failed upload still returns the assembled text
after_upload_partial(text, rep) ==
    IF rep.status_code = 200 /\ rep.json /\ rep.status = "ok" /\ rep.data = "page"
    THEN success_response(text, rep.downloadPage)
    ELSE [status |-> 400,
          body |-> [detail |-> <<"Contract generation failed: ", "upload">>,
                    contract |-> text]]

\* mutant: the HTTP status of the reply is not looked at
after_upload_no_http_check(text, rep) ==
    IF ~rep.json
    THEN failure_response(<<"Expecting value: line 1 column 1 (char 0)">>)
    ELSE IF rep.status # "ok"
    THEN failure_response(<<"Gofile error: ", ToString(rep)>>)
    ELSE IF rep.data = "absent"
    THEN failure_response(<<"'data'">>)
    ELSE IF rep.data = "empty"
    THEN failure_response(<<"'downloadPage'">>)
    ELSE success_response(text, rep.downloadPage)

\* lines 298-312: what the handler makes of the reply of the upload service
after_upload(text, rep) ==
    IF rep.status_code # 200
    THEN failure_response(<<"Upload failed: ", ToString(rep.status_code)>>)
    ELSE IF ~rep.json
    THEN failure_response(<<"Expecting value: line 1 column 1 (char 0)">>)
    ELSE IF rep.status # "ok"
    THEN failure_response(<<"Gofile error: ", ToString(rep)>>)
    ELSE IF rep.data = "absent"
    THEN failure_response(<<"'data'">>)
    ELSE IF rep.data = "empty"
    THEN failure_response(<<"'downloadPage'">>)
    ELSE success_response(text, rep.downloadPage)

\* upload_res = requests.post(url, files={"file": f}), answered by rep, and
\* the rest of the handler
Upload(r, rep) ==
    /\ pc[r] = "post"
    /\ uploads' = [uploads EXCEPT ![r] =
            Append(@, [name |-> filename[r], file |-> files[filename[r]]])]
    /\ upload_res' = [upload_res EXCEPT ![r] = rep]
    /\ IF rep.status_code = 0
       THEN \* the call raised: no reply
            /\ Fail(r, <<"connection error">>)
            /\ UNCHANGED stages
       ELSE /\ response' = [response EXCEPT ![r] =
                    Append(@, after_upload(contract_text[r], rep))]
            /\ stages' = [stages EXCEPT ![r] = Append(@, "upload")]
            /\ pc' = [pc EXCEPT ![r] = "done"]
    /\ UNCHANGED <<request, data, raw_clause, completion, refined_clause,
                   contract_text, filename, files, issued, llm_calls>>

----------------------------------------------------------------------------
(* Environments: the request bodies that arrive and the answers of the two
   external services *)

Acme == <<"A", "c", "m", "e">>
Beta == <<"B", "e", "t", "a">>
TwoYears == <<"2", " ", "y", "e", "a", "r", "s">>
FiveWeeks == <<"5", " ", "w", "e", "e", "k", "s">>
Pune == <<"P", "u", "n", "e">>

Queries == {<<"confidentiality">>, <<"termination">>}

OptText(v) == {None, Some(v)}

\* request bodies over all contract types, one unrecognized type, short and
\* empty party names, a bad duration, and every combination of the optional
\* fields
Requests ==
    [contract_type : ContractTypes \cup {"will"},
     party_a : {<<"A">>, Acme},
     party_b : {<<>>, Beta},
     duration : {TwoYears, FiveWeeks},
     clause_query : Queries,
     property_address : OptText(<<"1", "2", " ", "M", "G", " ", "R", "d">>),
     position : OptText(<<"E", "n", "g", "i", "n", "e", "e", "r">>),
     goods_description : OptText(<<"S", "t", "e", "e", "l">>),
     scope : OptText(<<"I", "n", "d", "i", "a">>),
     jurisdiction : OptText(Pune)]

\* a request body that validates, with the given type, query and duration
BodyOf(type, query, duration) ==
    [contract_type |-> type, party_a |-> Acme, party_b |-> Beta,
     duration |-> duration, clause_query |-> query,
     property_address |-> None, position |-> None,
     goods_description |-> None, scope |-> None, jurisdiction |-> None]

\* bodies for concurrent requests: a type with its own clause bank and one
\* without, two queries, and one body that does not validate
ConcRequests ==
    {BodyOf(t, q, TwoYears) : t \in {"nda", "lease"}, q \in Queries}
    \cup {BodyOf("will", <<"confidentiality">>, TwoYears)}

\* duration strings: optional leading blank, up to MaxDigits characters
\* where the digits go, up to MaxWs whitespace characters, a unit or a
\* non-unit, and a suffix
DurStrings ==
    {lead \o pre \o ws \o unit \o suf :
        lead \in {<<>>, <<" ">>},
        pre \in SeqsUpTo({"2", "a"}, MaxDigits),
        ws \in SeqsUpTo(Whitespace, MaxWs),
        unit \in Units \cup {<<>>, <<"w", "e", "e", "k", "s">>},
        suf \in {<<>>, <<"\n">>, <<" ">>, <<"s">>, <<"x">>, <<"\n", "\n">>}}

DurRequests == {BodyOf("nda", <<"confidentiality">>, d) : d \in DurStrings}

ProtectedText ==
    [kind |-> "text",
     text |-> <<" ", "Confidential information shall be protected.", "\n">>]
PenaltyText ==
    [kind |-> "text",
     text |-> <<"Penalty of ", "RUPEE", "5,00,000 under the parties",
                "RSQUO", " agreement.">>]
NullText == [kind |-> "null", text |-> <<>>]
CallError == [kind |-> "error", text |-> <<"Connection error.">>]

Completions == {ProtectedText, PenaltyText, NullText, CallError}

Reply(code, json, status, d, page) ==
    [status_code |-> code, json |-> json, status |-> status, data |-> d,
     downloadPage |-> page]

\* the bodies the upload service may send back
ReplyBodies(code) ==
    {Reply(code, FALSE, "absent", "absent", ""),
     Reply(code, TRUE, "error", "absent", ""),
     Reply(code, TRUE, "ok", "absent", ""),
     Reply(code, TRUE, "ok", "empty", ""),
     Reply(code, TRUE, "ok", "page", "https://example/x"),
     Reply(code, TRUE, "ok", "page", "https://example/y")}

Replies == UNION {ReplyBodies(code) : code \in {200, 201, 500}} \cup {NoReply}

OkReply == Reply(200, TRUE, "ok", "page", "https://example/x")
ErrorReply == Reply(500, FALSE, "absent", "absent", "")

----------------------------------------------------------------------------
(* Specifications *)

\* one request, over all request bodies and all answers of the services
Next ==
    \E r \in {1} :
        \/ \E raw \in Requests : Receive(r, raw)
        \/ SelectClause(r)
        \/ \E c \in Completions : Refine(r, c)
        \/ Assemble(r)
        \/ \E ok \in BOOLEAN : Render(r, ok)
        \/ \E ok \in BOOLEAN : Open(r, ok)
        \/ \E rep \in Replies : Upload(r, rep)

Spec == Init /\ [][Next]_vars

\* NumReq requests in flight at once
NextConc ==
    \E r \in Reqs :
        \/ \E raw \in ConcRequests : Receive(r, raw)
        \/ SelectClause(r)
        \/ \E c \in {ProtectedText, CallError} : Refine(r, c)
        \/ Assemble(r)
        \/ \E ok \in BOOLEAN : Render(r, ok)
        \/ \E ok \in {TRUE} : Open(r, ok)
        \/ \E rep \in {OkReply, ErrorReply} : Upload(r, rep)

SpecConc == Init /\ [][NextConc]_vars

\* one request, over the duration strings
NextDur ==
    \E r \in {1} :
        \/ \E raw \in DurRequests : Receive(r, raw)
        \/ SelectClause(r)
        \/ \E c \in {ProtectedText} : Refine(r, c)
        \/ Assemble(r)
        \/ \E ok \in {TRUE} : Render(r, ok)
        \/ \E ok \in {TRUE} : Open(r, ok)
        \/ \E rep \in {OkReply, ErrorReply} : Upload(r, rep)

SpecDur == Init /\ [][NextDur]_vars

----------------------------------------------------------------------------
(* Properties *)

Prefix == <<"Contract generation failed: ">>

Entered(r) == pc[r] # "idle"
Done(r) == pc[r] = "done"
Succeeded(r) == Done(r) /\ Len(response[r]) = 1 /\ response[r][1].status = 200
Failed(r) == Done(r) /\ Len(response[r]) = 1 /\ response[r][1].status # 200

\* the three ways a body fails validation
FailsValidation(raw) ==
    \/ raw.contract_type \notin ContractTypes
    \/ Len(raw.party_a) < 2
    \/ Len(raw.party_b) < 2
    \/ ~validate_duration(raw.duration)

\* C1: a request that fails validation is answered without any call to the
\* text-completion service or the upload service and without rendering a
\* file: it never enters the handler.
C1_RejectedBeforeExternalCalls ==
    \A r \in Reqs :
        (Entered(r) /\ FailsValidation(request[r])) =>
            /\ Done(r)
            /\ Len(response[r]) = 1
            /\ response[r][1].status # 200
            /\ llm_calls[r] = <<>>
            /\ uploads[r] = <<>>
            /\ stages[r] = <<>>
            /\ filename[r] = 0

C1_Witness ==
    \E r \in Reqs :
        /\ Done(r)
        /\ request[r].contract_type = "will"
        /\ Len(response[r]) = 1

\* C2 as claimed: every failure response, validation failures included, is
\* the one uniform response: status 400 and a detail that starts with
\* "Contract generation failed: ".
C2_Original ==
    \A r \in Reqs :
        Failed(r) =>
            /\ response[r][1].status = 400
            /\ StartsWith(response[r][1].body.detail, Prefix)

\* C2 as amended: every failure raised inside the handler (clause selection
\* to the parsing of the upload response) is answered with status 400 and a
\* detail "Contract generation failed: " followed by the cause; a body that
\* fails validation never enters the handler and is answered by the
\* framework's validation error, which is not that response.
C2_HandlerFailuresUniform ==
    \A r \in Reqs :
        Failed(r) =>
            IF FailsValidation(request[r])
            THEN /\ response[r][1].status = ValidationStatus
                 /\ ~StartsWith(response[r][1].body.detail, Prefix)
            ELSE /\ response[r][1].status = 400
                 /\ StartsWith(response[r][1].body.detail, Prefix)
                 /\ Len(response[r][1].body.detail) > 1

C2_Witness ==
    \E r \in Reqs :
        /\ Failed(r)
        /\ "upload" \in {stages[r][i] : i \in 1..Len(stages[r])}
        /\ response[r][1].body.detail = Prefix \o <<"'data'">>

\* C3: a request gets at most one response, and exactly one once it is
\* done; a success carries message, contract and pdf_url, a failure carries
\* neither contract nor pdf_url, whatever had been assembled by then.
C3_NoPartialSuccess ==
    \A r \in Reqs :
        /\ Len(response[r]) <= 1
        /\ Done(r) <=> Len(response[r]) = 1
        /\ Done(r) =>
            LET res == response[r][1]
            IN  IF res.status = 200
                THEN DOMAIN res.body = {"message", "contract", "pdf_url"}
                ELSE /\ "contract" \notin DOMAIN res.body
                     /\ "pdf_url" \notin DOMAIN res.body
                     /\ "message" \notin DOMAIN res.body

C3_Witness ==
    \E r \in Reqs :
        /\ Failed(r)
        /\ contract_text[r] # <<>>
        /\ upload_res[r].status_code = 500

StagesOf(r) == {stages[r][i] : i \in 1..Len(stages[r])}

\* the upload service answered request r
Answered(r) == Done(r) /\ "upload" \in StagesOf(r)

\* the body of the reply parses and its status field is "ok"
BodyOk(rep) == rep.json /\ rep.status = "ok"

\* the HTTP-level success the handler looks for
HttpSuccess(rep) == rep.status_code = 200

\* C4 as claimed: once the upload is answered, the request fails if the HTTP
\* status is not the success status or the body status is not "ok" (a 500
\* gives a detail containing "Upload failed"), and it succeeds with pdf_url
\* equal to data.downloadPage whenever the HTTP status is the success status
\* and the body status is "ok".
C4_Original ==
    \A r \in Reqs :
        Answered(r) =>
            LET rep == upload_res[r]
            IN  /\ (~HttpSuccess(rep) \/ ~BodyOk(rep)) => Failed(r)
                /\ rep.status_code = 500 =>
                      Contains(response[r][1].body.detail, <<"Upload failed: ">>)
                /\ (HttpSuccess(rep) /\ BodyOk(rep)) =>
                      /\ Succeeded(r)
                      /\ response[r][1].body.pdf_url = rep.downloadPage

\* C4 as amended: once the upload is answered, the request succeeds exactly
\* when the HTTP status code is 200, the body status is "ok" and the body
\* carries data.downloadPage, and pdf_url is then that value; in every other
\* case it fails, and a 500 gives a detail containing "Upload failed".
C4_UploadOutcome ==
    \A r \in Reqs :
        Answered(r) =>
            LET rep == upload_res[r]
            IN  /\ (rep.status_code # 200 \/ ~BodyOk(rep) \/ rep.data # "page")
                      => Failed(r)
                /\ rep.status_code = 500 =>
                      Contains(response[r][1].body.detail, <<"Upload failed: ">>)
                /\ (rep.status_code = 200 /\ BodyOk(rep) /\ rep.data = "page") =>
                      /\ Succeeded(r)
                      /\ response[r][1].body.pdf_url = rep.downloadPage

C4_Witness ==
    \E r \in Reqs :
        /\ Succeeded(r)
        /\ upload_res[r].status_code = 200
        /\ response[r][1].body.pdf_url = "https://example/y"

StageOrder == <<"select", "refine", "assemble", "render", "upload">>

\* C5: the stages of a request complete in the order selection, refinement,
\* assembly, render, upload, each at most once; a request calls each
\* service at most once; the refinement call needs the selection done, and
\* the upload is attempted only after a refinement that returned text and a
\* render that wrote the file.
C5_SequentialSingleAttempt ==
    \A r \in Reqs :
        /\ Len(stages[r]) <= Len(StageOrder)
        /\ stages[r] = SubSeq(StageOrder, 1, Len(stages[r]))
        /\ Len(llm_calls[r]) <= 1
        /\ Len(uploads[r]) <= 1
        /\ llm_calls[r] # <<>> => raw_clause[r] # <<>>
        /\ contract_text[r] # <<>> => completion[r].kind = "text"
        /\ filename[r] # 0 => contract_text[r] # <<>>
        /\ uploads[r] # <<>> =>
              /\ completion[r].kind = "text"
              /\ "render" \in StagesOf(r)
              /\ filename[r] \in DOMAIN files
        /\ Succeeded(r) => stages[r] = StageOrder

C5_Witness ==
    \E r \in Reqs :
        /\ Succeeded(r)
        /\ stages[r] = StageOrder
        /\ Len(llm_calls[r]) = 1
        /\ Len(uploads[r]) = 1

\* the whole string is digits, then whitespace, then a unit
WholeMatch(v) ==
    \E i \in 1..Len(v), j \in 1..Len(v) :
        /\ i < j
        /\ \A n \in 1..i : v[n] \in Digits
        /\ \A n \in (i + 1)..j : v[n] \in Whitespace
        /\ SubSeq(v, j + 1, Len(v)) \in Units

\* the body of request r passed validation: the handler was entered
Accepted(r) == Entered(r) /\ data[r] # NoRequest

\* C6: a duration is accepted if and only if the whole string is one or
\* more digits, one or more whitespace characters and a unit, with nothing
\* before or after.
C6_Original ==
    \A r \in Reqs :
        Entered(r) => (Accepted(r) <=> WholeMatch(request[r].duration))

\* the title line of each contract type
Title ==
    [nda |-> "NON-DISCLOSURE AGREEMENT",
     contractor |-> "INDEPENDENT CONTRACTOR AGREEMENT",
     sla |-> "SERVICE LEVEL AGREEMENT",
     partnership |-> "PARTNERSHIP AGREEMENT",
     sales |-> "SALES AGREEMENT",
     employment |-> "EMPLOYMENT AGREEMENT",
     lease |-> "LEASE AGREEMENT",
     mou |-> "MEMORANDUM OF UNDERSTANDING",
     noncompete |-> "NON-COMPETE AGREEMENT"]

Assembled(r) == "assemble" \in StagesOf(r)

\* C7: the assembled text of every contract type contains party_a, party_b,
\* the duration, the refined clause and the jurisdiction verbatim, an nda
\* starts with its header, assembling again from the same request and
\* clause gives the same text, and the contract field of a success response
\* is the assembled text.
C7_AssembledTextComplete ==
    \A r \in Reqs :
        Assembled(r) =>
            LET text == contract_text[r]
            IN  /\ Contains(text, data[r].party_a)
                /\ Contains(text, data[r].party_b)
                /\ Contains(text, data[r].duration)
                /\ Contains(text, refined_clause[r])
                /\ Contains(text, data[r].jurisdiction)
                /\ data[r].jurisdiction =
                      (IF request[r].jurisdiction.some
                       THEN request[r].jurisdiction.val
                       ELSE <<"N", "e", "w", " ", "D", "e", "l", "h", "i">>)
                /\ data[r].contract_type = "nda" =>
                      StartsWith(text, <<"NON-DISCLOSURE AGREEMENT", "\n">>)
                /\ text = get_legal_template(data[r], refined_clause[r])
                /\ Succeeded(r) => response[r][1].body.contract = text

C7_Witness ==
    \E r \in Reqs :
        /\ Succeeded(r)
        /\ data[r].contract_type = "lease"
        /\ request[r].jurisdiction = None
        /\ Contains(response[r][1].body.contract, <<"RUPEE">>)

\* what an unset optional field may show as in its slot
Placeholders == {<<>>, <<"N", "o", "n", "e">>}

\* the text has a line made of the label and then the field: its value when
\* set, a placeholder when unset
SlotLine(text, label, field) ==
    \E shown \in (IF field.some THEN {field.val} ELSE Placeholders) :
        Contains(text, <<"\n", label>> \o shown \o <<"\n">>)

\* C8: for every validated request, whichever optional fields are unset,
\* assembly is reached and completes once refinement returned text, the
\* result is never the sentinel "Invalid contract type." but the template
\* of the request's own type, and the type-specific slot shows the field's
\* value, or a placeholder when the field is unset.
C8_UnsetFieldsRenderAsPlaceholder ==
    \A r \in Reqs :
        /\ (Accepted(r) /\ completion[r].kind = "text" /\ pc[r] # "assemble")
              => Assembled(r)
        /\ Assembled(r) =>
            LET text == contract_text[r]
                d == data[r]
            IN  /\ text # <<"Invalid contract type.">>
                /\ Head(text) = Title[d.contract_type]
                /\ d.contract_type = "lease" =>
                      SlotLine(text, "1. Property: ", d.property_address)
                /\ d.contract_type = "employment" =>
                      SlotLine(text, "1. Position: ", d.position)
                /\ d.contract_type = "sales" =>
                      SlotLine(text, "2. Goods/Services: ", d.goods_description)
                /\ d.contract_type = "noncompete" =>
                      SlotLine(text, "2. Scope: ", d.scope)

C8_Witness ==
    \E r \in Reqs :
        /\ Succeeded(r)
        /\ data[r].contract_type = "lease"
        /\ data[r].property_address = None
        /\ Contains(contract_text[r],
                    <<"1. Property: ", "N", "o", "n", "e", "\n">>)

Selected(r) == "select" \in StagesOf(r)

\* the two requests differ at most in clause_query
SameButQuery(a, b) == [a EXCEPT !.clause_query = b.clause_query] = b

\* C9: the selected clause is the first entry of the type's own list for
\* nda, employment and noncompete and of the default list otherwise; two
\* requests of the same type have the same clause whatever their queries;
\* and two requests that differ only in clause_query and got the same
\* answers from the services and the renderer get the same response.
C9_ClauseIgnoresQuery ==
    \A r1 \in Reqs :
        /\ Selected(r1) =>
              raw_clause[r1] =
                  (IF data[r1].contract_type \in {"nda", "employment", "noncompete"}
                   THEN specialized_clause_banks[data[r1].contract_type][1]
                   ELSE default_clauses[1])
        /\ \A r2 \in Reqs :
              /\ (/\ Selected(r1) /\ Selected(r2)
                  /\ data[r1].contract_type = data[r2].contract_type)
                    => raw_clause[r1] = raw_clause[r2]
              /\ (/\ Done(r1) /\ Done(r2)
                  /\ SameButQuery(request[r1], request[r2])
                  /\ completion[r1] = completion[r2]
                  /\ upload_res[r1] = upload_res[r2]
                  /\ ("render" \in StagesOf(r1)) = ("render" \in StagesOf(r2)))
                    => response[r1] = response[r2]

C9_Witness ==
    \E r1 \in Reqs, r2 \in Reqs :
        /\ Succeeded(r1) /\ Succeeded(r2)
        /\ data[r1].contract_type = "lease"
        /\ data[r2].contract_type = "lease"
        /\ data[r1].clause_query # data[r2].clause_query
        /\ response[r1] = response[r2]

\* C10: requests in flight never share a file name; what a request uploads
\* is the file it rendered, under its own name; and a rendered file stays in
\* the directory with the content its request rendered, after a successful
\* and after a failed upload alike.
C10_FilesDisjoint ==
    /\ \A r1 \in Reqs, r2 \in Reqs :
          (r1 # r2 /\ filename[r1] # 0) => filename[r1] # filename[r2]
    /\ \A r \in Reqs :
          \A i \in 1..Len(uploads[r]) :
              /\ uploads[r][i].name = filename[r]
              /\ uploads[r][i].file = save_as_pdf(contract_text[r])
    /\ \A r \in Reqs :
          "render" \in StagesOf(r) =>
              /\ filename[r] \in DOMAIN files
              /\ files[filename[r]] = save_as_pdf(contract_text[r])

C10_Witness ==
    \E r1 \in Reqs, r2 \in Reqs :
        /\ r1 # r2
        /\ Succeeded(r1)
        /\ Failed(r2) /\ upload_res[r2].status_code = 500
        /\ data[r1].contract_type # data[r2].contract_type
        /\ {filename[r1], filename[r2]} \subseteq DOMAIN files

=============================================================================
